---------------------------- MODULE Spec2Model ----------------------------
(***************************************************************************)
(* A model of librepo's repository-configuration code                      *)
(* (src/librepo/repoconf.c): the two unit converters, the typed option     *)
(* accessors lr_yumrepoconf_getinfo / lr_yumrepoconf_setopt and the GLib   *)
(* key-file calls they are built on.                                       *)
(*                                                                         *)
(* Texts are sequences of one-character strings (<<"1","0","M">> is the C  *)
(* string "10M"); NULL pointers are the value Null.  Integers wider than   *)
(* TLC's own are kept as decimal digit sequences (most significant digit   *)
(* first) with an explicit sign, so that gint, guint, long, gint64 and     *)
(* guint64 keep their C widths.                                            *)
(***************************************************************************)
EXTENDS Integers, Sequences, FiniteSets, TLC

\* a NULL char* (no text holds a string of more than one character)
Null == <<"NULL">>

(***************************************************************************)
(* Characters                                                              *)
(***************************************************************************)
DecChars == <<"0","1","2","3","4","5","6","7","8","9">>
UpperChars == <<"A","B","C","D","E","F","G","H","I","J","K","L","M",
                "N","O","P","Q","R","S","T","U","V","W","X","Y","Z">>
LowerChars == <<"a","b","c","d","e","f","g","h","i","j","k","l","m",
                "n","o","p","q","r","s","t","u","v","w","x","y","z">>

IsDigit(c) == \E i \in 1..10 : DecChars[i] = c
DigitVal(c) == (CHOOSE i \in 1..10 : DecChars[i] = c) - 1
DigitChar(d) == DecChars[d + 1]

\* g_ascii_tolower: only A-Z change
AsciiLower(c) ==
    IF \E i \in 1..26 : UpperChars[i] = c
    THEN LowerChars[CHOOSE i \in 1..26 : UpperChars[i] = c]
    ELSE c

\* g_ascii_strdown
StrDown(s) == [i \in 1..Len(s) |-> AsciiLower(s[i])]

HexVal(c) ==
    IF IsDigit(c) THEN DigitVal(c)
    ELSE 9 + (CHOOSE i \in 1..6 : LowerChars[i] = AsciiLower(c))

\* isspace() in the C locale
IsSpace(c) == c \in {" ", "\t", "\n", "\r"}

Front(s) == SubSeq(s, 1, Len(s) - 1)
Last(s) == s[Len(s)]
\* the C string starting at 1-based position i of s (a pointer into s)
From(s, i) == SubSeq(s, i, Len(s))

(***************************************************************************)
(* Natural numbers of any width: canonical decimal digit sequences (no     *)
(* leading zero, zero is <<0>>).  The arithmetic works on groups of four   *)
(* digits ("limbs", base 10000), which keeps every intermediate value      *)
(* inside TLC's own integers.                                              *)
(***************************************************************************)
Min(S) == CHOOSE x \in S : \A y \in S : x <= y

\* n zeros (none for n <= 0)
Zeros(n) == [i \in 1..n |-> 0]

\* without its leading zeros
Norm(ds) ==
    LET nz == {k \in 1..Len(ds) : ds[k] # 0}
    IN  IF nz = {} THEN <<0>> ELSE SubSeq(ds, Min(nz), Len(ds))

BigZero == <<0>>
IsZero(a) == \A k \in 1..Len(a) : a[k] = 0

\* the digits of a TLC natural number
NatDigits(n) == Norm([k \in 1..10 |-> (n \div 10^(10 - k)) % 10])

ToLimbs(ds) ==
    LET n    == Len(ds)
        L    == (n + 3) \div 4
        D(p) == IF p >= 1 THEN ds[p] ELSE 0
    IN  [j \in 1..L |->
            LET e == n - 4 * (L - j)
            IN  D(e - 3) * 1000 + D(e - 2) * 100 + D(e - 1) * 10 + D(e)]

FromLimbs(ls) ==
    Norm([k \in 1..(4 * Len(ls)) |->
             (ls[(k + 3) \div 4] \div 10^(3 - ((k - 1) % 4))) % 10])

RECURSIVE MulAcc(_, _, _)
MulAcc(ls, m, carry) ==
    IF carry = 0 /\ ls = <<>> THEN <<>>
    ELSE IF ls = <<>> THEN <<carry \div 10000, carry % 10000>>
    ELSE LET p == Last(ls) * m + carry
         IN  MulAcc(Front(ls), m, p \div 10000) \o <<p % 10000>>

\* a * m for a small factor m (m <= 200000)
BigMulSmall(a, m) ==
    IF a = BigZero \/ m = 0 THEN BigZero ELSE FromLimbs(MulAcc(ToLimbs(a), m, 0))

RECURSIVE DivAcc(_, _, _)
DivAcc(ls, d, rem) ==
    IF ls = <<>> THEN <<>>
    ELSE LET cur == rem * 10000 + ls[1]
         IN  <<cur \div d>> \o DivAcc(Tail(ls), d, cur % d)

\* floor(a / d) for a small divisor d (d <= 200000)
BigDivSmall(a, d) ==
    IF a = BigZero THEN BigZero ELSE FromLimbs(DivAcc(ToLimbs(a), d, 0))

\* -1, 0, 1 as a < b, a = b, a > b
BigCmp(a, b) ==
    LET x    == Norm(a)
        y    == Norm(b)
        diff == {k \in 1..Len(x) : x[k] # y[k]}
    IN  IF Len(x) < Len(y) THEN -1
        ELSE IF Len(x) > Len(y) THEN 1
        ELSE IF diff = {} THEN 0
        ELSE IF x[Min(diff)] < y[Min(diff)] THEN -1 ELSE 1

BigLeq(a, b) == BigCmp(a, b) <= 0
BigLess(a, b) == BigCmp(a, b) < 0

PadTo(a, n) == Zeros(n - Len(a)) \o a

RECURSIVE AddAcc(_, _, _)
AddAcc(a, b, carry) ==
    IF carry = 0 /\ a = <<>> THEN <<>>
    ELSE IF a = <<>> THEN <<carry>>
    ELSE LET t == Last(a) + Last(b) + carry
         IN  AddAcc(Front(a), Front(b), t \div 10000) \o <<t % 10000>>

BigAdd(a, b) ==
    LET x == ToLimbs(a)
        y == ToLimbs(b)
        n == IF Len(x) > Len(y) THEN Len(x) ELSE Len(y)
    IN  IF a = BigZero THEN b
        ELSE IF b = BigZero THEN a
        ELSE FromLimbs(AddAcc(PadTo(x, n), PadTo(y, n), 0))

RECURSIVE SubAcc(_, _, _)
SubAcc(a, b, borrow) ==
    IF borrow = 0 /\ a = <<>> THEN <<>>
    ELSE IF a = <<>> THEN <<>>
    ELSE LET t == Last(a) - Last(b) - borrow
         IN  SubAcc(Front(a), Front(b), IF t < 0 THEN 1 ELSE 0)
                 \o <<IF t < 0 THEN t + 10000 ELSE t>>

\* a - b, for a >= b
BigSub(a, b) ==
    LET x == ToLimbs(a)
    IN  IF b = BigZero THEN a
        ELSE FromLimbs(SubAcc(x, PadTo(ToLimbs(b), Len(x)), 0))

RECURSIVE BigMulAll(_, _)
\* a times every factor of the sequence fs (each factor small)
BigMulAll(a, fs) ==
    IF fs = <<>> THEN Norm(a) ELSE BigMulSmall(BigMulAll(a, Front(fs)), Last(fs))

RECURSIVE MulPow2(_, _)
\* a * 2^n
MulPow2(a, n) ==
    IF n <= 0 THEN Norm(a)
    ELSE IF n >= 16 THEN BigMulSmall(MulPow2(a, n - 16), 65536)
    ELSE BigMulSmall(a, 2^n)

RECURSIVE DivPow2(_, _)
\* floor(a / 2^n)
DivPow2(a, n) ==
    IF n <= 0 \/ IsZero(a) THEN Norm(a)
    ELSE IF n >= 16 THEN DivPow2(BigDivSmall(a, 65536), n - 16)
    ELSE BigDivSmall(a, 2^n)

\* a * base^n, for base 10 or 2
MulPow(a, base, n) ==
    IF base = 10 THEN Norm(a \o Zeros(n)) ELSE MulPow2(a, n)

\* floor(a / base^n), for base 10 or 2
DivPow(a, base, n) ==
    IF base = 10 THEN Norm(SubSeq(a, 1, Len(a) - n)) ELSE DivPow2(a, n)

\* the value of a digit sequence below 2^31 as a TLC number
RECURSIVE SmallValue(_)
SmallValue(ds) == IF ds = <<>> THEN 0 ELSE SmallValue(Front(ds)) * 10 + Last(ds)

RECURSIVE BitLen(_)
\* the number of binary digits of a (0 for zero)
BitLen(a) ==
    IF BigLess(a, <<6,5,5,3,6>>)
    THEN LET v == SmallValue(Norm(a))
         IN  CHOOSE k \in 0..16 : v < 2^k /\ (k = 0 \/ v >= 2^(k - 1))
    ELSE 16 + BitLen(BigDivSmall(a, 65536))

\* signed integers: a sign and a magnitude
SInt(neg, mag) == [neg |-> neg /\ ~IsZero(mag), mag |-> Norm(mag)]
\* a small TLC integer as a signed integer of the model
I(n) == IF n < 0 THEN SInt(TRUE, NatDigits(-n)) ELSE SInt(FALSE, NatDigits(n))

INT64_MAX == SInt(FALSE, <<9,2,2,3,3,7,2,0,3,6,8,5,4,7,7,5,8,0,7>>)
INT64_MIN == SInt(TRUE, <<9,2,2,3,3,7,2,0,3,6,8,5,4,7,7,5,8,0,8>>)
UINT64_MAX == SInt(FALSE, <<1,8,4,4,6,7,4,4,0,7,3,7,0,9,5,5,1,6,1,5>>)
INT32_MAX == SInt(FALSE, <<2,1,4,7,4,8,3,6,4,7>>)
INT32_MIN == SInt(TRUE, <<2,1,4,7,4,8,3,6,4,8>>)
\* 2^32 and 2^31
Two32 == <<4,2,9,4,9,6,7,2,9,6>>
Two31 == <<2,1,4,7,4,8,3,6,4,8>>

(***************************************************************************)
(* g_ascii_strtod: strtod() in the C locale.  The result is the value      *)
(*   (-1)^neg * mant * base^exp   (kind "finite"), an infinity or a NaN,   *)
(* and endp, the position of the first character not consumed (endptr);    *)
(* with no conversion endp = 1, that is endptr == nptr.  The value is kept *)
(* exact: the rounding of a literal to a double is not modelled, which     *)
(* makes no difference for the integral magnitudes below 2^53 that the     *)
(* inputs of this model hold.                                              *)
(***************************************************************************)
\* the character at position i of the C string s; "" is the terminating NUL
At(s, i) == IF i >= 1 /\ i <= Len(s) THEN s[i] ELSE ""

\* the first position from i on whose character is not in the set class
\* (the terminating NUL is in no class)
RunEnd(s, i, class) ==
    IF i > Len(s) THEN i
    ELSE Min({j \in i..(Len(s) + 1) : At(s, j) \notin class})

Range(f) == {f[x] : x \in DOMAIN f}
HexChars == Range(DecChars) \cup {"a","b","c","d","e","f","A","B","C","D","E","F"}

SkipSpace(s, i) == RunEnd(s, i, {" ", "\t", "\n", "\r"})
\* how many decimal digits start at position i
DigitRun(s, i) == RunEnd(s, i, Range(DecChars)) - i
HexRun(s, i) == RunEnd(s, i, HexChars) - i

DecDigitsAt(s, i, n) == [k \in 1..n |-> DigitVal(s[i + k - 1])]

RECURSIVE HexToBig(_, _, _, _)
\* acc * 16^n + the hexadecimal number in s[i .. i+n-1]
HexToBig(s, i, n, acc) ==
    IF n = 0 THEN acc
    ELSE BigAdd(BigMulSmall(HexToBig(s, i, n - 1, acc), 16),
                NatDigits(HexVal(s[i + n - 1])))

\* the largest exponent magnitude kept; anything beyond over- or underflows
ExpCap == 999999

RECURSIVE SmallNat(_, _, _)
\* the decimal number in s[i .. i+n-1], capped at ExpCap
SmallNat(s, i, n) ==
    IF n = 0 THEN 0
    ELSE LET v == SmallNat(s, i, n - 1) * 10 + DigitVal(s[i + n - 1])
         IN  IF v > ExpCap THEN ExpCap ELSE v

\* an exponent part "e[+-]digits" (mark is "e" or "p") at position q:
\* its value and the position after it; absent: value 0, position q
ExponentAt(s, q, mark) ==
    LET signed == At(s, q + 1) \in {"-", "+"}
        d      == IF signed THEN q + 2 ELSE q + 1
        n      == DigitRun(s, d)
    IN  IF AsciiLower(At(s, q)) = mark /\ At(s, q) # "" /\ n >= 1
        THEN [val  |-> IF At(s, q + 1) = "-" THEN -SmallNat(s, d, n)
                       ELSE SmallNat(s, d, n),
              endp |-> d + n]
        ELSE [val |-> 0, endp |-> q]

\* the first 24 digits of 2^1024 - 2^970, the least value strtod rounds to
\* HUGE_VAL; it has 309 digits
DblOverflow24 == <<1,7,9,7,6,9,3,1,3,4,8,6,2,3,1,5,8,0,7,9,3,7,2,8>>

\* mant * base^exp is too large for a double
Overflows(mant, base, exp) ==
    LET m == Norm(mant)
    IN  IF IsZero(m) THEN FALSE
        ELSE IF base = 10
        THEN LET n == Len(m) + exp
             IN  n > 309 \/
                 (n = 309 /\
                  BigCmp(SubSeq(m \o Zeros(24), 1, 24), DblOverflow24) >= 0)
        ELSE BitLen(m) + exp > 1024

\* the first 24 digits of 2^-1075, half the least positive double: a value
\* up to it rounds to zero; it is 0.247... * 10^-323
DblUnderflow24 == <<2,4,7,0,3,2,8,2,2,9,2,0,6,2,3,2,7,2,0,8,8,2,8,4>>

\* mant * base^exp is too small for a double: strtod yields a zero
Underflows(mant, base, exp) ==
    LET m == Norm(mant)
    IN  IF IsZero(m) THEN FALSE
        ELSE IF base = 10
        THEN LET n == Len(m) + exp
             IN  n < -323 \/
                 (n = -323 /\
                  BigCmp(SubSeq(m \o Zeros(24), 1, 24), DblUnderflow24) <= 0)
        ELSE LET n == BitLen(m) + exp
             IN  n < -1074 \/ (n = -1074 /\ m = MulPow2(<<1>>, BitLen(m) - 1))

NoConversion == [kind |-> "none", neg |-> FALSE, mant |-> BigZero,
                 base |-> 10, exp |-> 0, endp |-> 1, erange |-> FALSE]

Finite(neg, mant, base, exp, endp) ==
    IF Overflows(mant, base, exp)
    THEN [kind |-> "inf", neg |-> neg, mant |-> BigZero, base |-> base,
          exp |-> 0, endp |-> endp, erange |-> TRUE]
    ELSE IF Underflows(mant, base, exp)
    THEN [kind |-> "finite", neg |-> neg, mant |-> BigZero, base |-> base,
          exp |-> 0, endp |-> endp, erange |-> TRUE]
    ELSE [kind |-> "finite", neg |-> neg, mant |-> Norm(mant), base |-> base,
          exp |-> exp, endp |-> endp, erange |-> FALSE]

\* a decimal literal at position p: digits [. digits] [e[+-]digits]
DecimalAt(s, p, neg) ==
    LET n1  == DigitRun(s, p)
        dot == At(s, p + n1) = "."
        n2  == IF dot THEN DigitRun(s, p + n1 + 1) ELSE 0
        q   == IF dot THEN p + n1 + 1 + n2 ELSE p + n1
        ex  == ExponentAt(s, q, "e")
    IN  IF n1 + n2 = 0 THEN NoConversion
        ELSE Finite(neg,
                    DecDigitsAt(s, p, n1) \o DecDigitsAt(s, p + n1 + 1, n2),
                    10, ex.val - n2, ex.endp)

\* a hexadecimal literal at position p: 0x hexdigits [. hexdigits] [p[+-]digits]
HexAt(s, p, neg) ==
    LET h   == p + 2
        n1  == HexRun(s, h)
        dot == At(s, h + n1) = "."
        n2  == IF dot THEN HexRun(s, h + n1 + 1) ELSE 0
        q   == IF dot THEN h + n1 + 1 + n2 ELSE h + n1
        ex  == ExponentAt(s, q, "p")
    IN  IF n1 + n2 = 0 THEN DecimalAt(s, p, neg)
        ELSE Finite(neg,
                    HexToBig(s, h + n1 + 1, n2, HexToBig(s, h, n1, BigZero)),
                    2, ex.val - 4 * n2, ex.endp)

NanCharRun(s, i) ==
    RunEnd(s, i, Range(DecChars) \cup Range(LowerChars) \cup Range(UpperChars) \cup {"_"}) - i

IsWordAt(s, p, w) ==
    p + Len(w) - 1 <= Len(s) /\ StrDown(SubSeq(s, p, p + Len(w) - 1)) = w

g_ascii_strtod(s) ==
    LET p0  == SkipSpace(s, 1)
        neg == At(s, p0) = "-"
        p   == IF At(s, p0) \in {"-", "+"} THEN p0 + 1 ELSE p0
        special(kind, endp) ==
            [kind |-> kind, neg |-> neg, mant |-> BigZero, base |-> 10,
             exp |-> 0, endp |-> endp, erange |-> FALSE]
    IN  IF IsWordAt(s, p, <<"i","n","f","i","n","i","t","y">>) THEN special("inf", p + 8)
        ELSE IF IsWordAt(s, p, <<"i","n","f">>) THEN special("inf", p + 3)
        ELSE IF IsWordAt(s, p, <<"n","a","n">>)
        THEN LET n == NanCharRun(s, p + 4)
             IN  IF At(s, p + 3) = "(" /\ At(s, p + 4 + n) = ")"
                 THEN special("nan", p + 5 + n)
                 ELSE special("nan", p + 3)
        ELSE IF At(s, p) = "0" /\ AsciiLower(At(s, p + 1)) = "x"
        THEN HexAt(s, p, neg)
        ELSE DecimalAt(s, p, neg)

\* |value * mult| truncated toward zero, for a finite value; mult is given by
\* its factors, as the source writes it (60.0 * 60.0 * 24.0)
TruncProduct(v, mult) ==
    LET prod == BigMulAll(v.mant, mult)
    IN  IF v.exp >= 0 THEN MulPow(prod, v.base, v.exp)
        ELSE DivPow(prod, v.base, -v.exp)

\* a faulty sign test: the check for a negative product left out
ProductNeverNegative(v) == FALSE

\* value * mult < 0.0 (false for -0.0 and for a NaN)
ProductNegative(v) ==
    v.neg /\ (v.kind = "inf" \/ (v.kind = "finite" /\ ~IsZero(v.mant)))

\* value * mult has more digits than any 64-bit integer
TooWide(v, mult) ==
    LET prod == BigMulAll(v.mant, mult)
    IN  /\ ~IsZero(prod)
        /\ v.exp >= 0
        /\ IF v.base = 10 THEN Len(prod) + v.exp > 20
           ELSE BitLen(prod) + v.exp > 64

\* (gint64) (value * mult): the outcomes of the cast.  Out of the range of
\* gint64 (and for an infinity or a NaN) the cast is undefined: the values
\* that builds produce are the "integer indefinite" and the saturated ones.
CastToInt64(v, mult) ==
    LET mag == TruncProduct(v, mult)
    IN  IF v.kind = "finite" /\ ~TooWide(v, mult) /\
           BigLeq(mag, IF v.neg THEN INT64_MIN.mag ELSE INT64_MAX.mag)
        THEN {SInt(v.neg, mag)}
        ELSE {INT64_MIN, I(0), INT64_MAX}

\* (guint64) (value * mult), for a product that is not negative
CastToUint64(v, mult) ==
    LET mag == TruncProduct(v, mult)
    IN  IF v.kind = "finite" /\ ~TooWide(v, mult) /\ BigLeq(mag, UINT64_MAX.mag)
        THEN {SInt(FALSE, mag)}
        ELSE {I(0), SInt(FALSE, INT64_MIN.mag), UINT64_MAX}


(***************************************************************************)
(* Errors (GError): a domain, a code and a message.  A message is the      *)
(* format string of the g_set_error call and the text it is given; where   *)
(* the message of another error is pasted in, cause is that error's format *)
(* and arg its text.  NoError is a GError pointer that is still NULL.      *)
(***************************************************************************)
NoError == [domain |-> "none", code |-> "none", fmt |-> "", arg |-> <<>>,
            cause |-> ""]

\* a faulty g_set_error call: the code argument is lost and every error is
\* an LRE_VALUE
ErrAlwaysValue(code, fmt, arg) ==
    [domain |-> "LR_REPOCONF_ERROR", code |-> "LRE_VALUE", fmt |-> fmt,
     arg |-> arg, cause |-> ""]

\* g_set_error(err, LR_REPOCONF_ERROR, code, fmt, arg)
Err(code, fmt, arg) ==
    [domain |-> "LR_REPOCONF_ERROR", code |-> code, fmt |-> fmt, arg |-> arg,
     cause |-> ""]

\* an error set by GLib's key-file functions
KeyFileErr(code, fmt) ==
    [domain |-> "G_KEY_FILE_ERROR", code |-> code, fmt |-> fmt, arg |-> <<>>,
     cause |-> ""]

\* g_set_error on an error that is already set leaves it as it is (GLib
\* warns and drops the new one)
SetError(err, new) == IF err = NoError THEN new ELSE err

\* what a converter leaves behind: its return value, *out and *err
Failed(err) == [rc |-> FALSE, out |-> I(0), err |-> err]
Converted(out) == [rc |-> TRUE, out |-> out, err |-> NoError]

(***************************************************************************)
(* The unit converters.  Each yields the set of outcomes a call can have   *)
(* (one outcome, except where a cast is undefined).                        *)
(***************************************************************************)
\* a faulty unit table: an hour counted as a minute
IntervalMultHourAsMinute(unit) ==
    CASE unit = "s" -> <<1>>
      [] unit = "m" -> <<60>>
      [] unit = "h" -> <<60>>
      [] unit = "d" -> <<60, 60, 24>>
      [] OTHER -> <<>>

\* the multiplier of a time unit, by its factors as the source writes them;
\* none for any other character
IntervalMult(unit) ==
    CASE unit = "s" -> <<1>>
      [] unit = "m" -> <<60>>
      [] unit = "h" -> <<60, 60>>
      [] unit = "d" -> <<60, 60, 24>>
      [] OTHER -> <<>>

\* the multiplier of a bandwidth unit; none for any other character
BandwidthMult(unit) ==
    CASE unit = "k" -> <<1024>>
      [] unit = "m" -> <<1024, 1024>>
      [] unit = "g" -> <<1024, 1024, 1024>>
      [] OTHER -> <<>>

lr_convert_interval_to_seconds(str) ==
    IF str = Null
    THEN {Failed(Err("LRE_BADFUNCARG", "No time interval value specified", <<>>))}
    ELSE
    LET value  == g_ascii_strtod(str)
        endptr == From(str, value.endp)
        unit   == AsciiLower(At(endptr, 1))
        mult   == IntervalMult(unit)
    IN  IF value.kind = "inf" /\ ~value.neg /\ value.erange
        THEN {Failed(Err("LRE_VALUE", "Too big time interval value '%s'", str))}
        ELSE IF value.endp = 1
        THEN {Failed(Err("LRE_VALUE", "Could't convert '%s' to seconds", str))}
        \* "if (endptr)": endptr is never NULL, so the unit is always looked at
        ELSE IF Len(endptr) # 1
        THEN {Failed(Err("LRE_VALUE", "Unknown time interval unit '%s'", endptr))}
        ELSE IF mult = <<>>
        THEN {Failed(Err("LRE_VALUE", "Unknown time interval unit '%s'", endptr))}
        ELSE {Converted(out) : out \in CastToInt64(value, mult)}

lr_convert_bandwidth_to_bytes(str) ==
    IF str = Null
    THEN {Failed(Err("LRE_BADFUNCARG", "No bandwidth value specified", <<>>))}
    ELSE
    LET dbytes == g_ascii_strtod(str)
        endptr == From(str, dbytes.endp)
        unit   == AsciiLower(At(endptr, 1))
        mult   == BandwidthMult(unit)
    IN  IF dbytes.kind = "inf" /\ ~dbytes.neg /\ dbytes.erange
        THEN {Failed(Err("LRE_VALUE", "Too big bandwidth value '%s'", str))}
        ELSE IF dbytes.endp = 1
        THEN {Failed(Err("LRE_VALUE", "Could't convert '%s' to number", str))}
        \* "if (endptr)": endptr is never NULL, so the unit is always looked at
        ELSE IF Len(endptr) # 1
        THEN {Failed(Err("LRE_VALUE", "Unknown unit '%s'", endptr))}
        ELSE IF mult = <<>>
        THEN {Failed(Err("LRE_VALUE", "Unknown unit '%s'", endptr))}
        ELSE IF ProductNegative(dbytes)
        THEN {Failed(Err("LRE_VALUE", "Bytes value may not be negative '%s'", str))}
        ELSE {Converted(out) : out \in CastToUint64(dbytes, mult)}

(***************************************************************************)
(* Option tags (LrYumRepoConfOption) and the keys they are stored under.   *)
(***************************************************************************)
TextOptions ==
    {"LR_YRC_NAME", "LR_YRC_MIRRORLIST", "LR_YRC_METALINK", "LR_YRC_MEDIAID",
     "LR_YRC_PROXY", "LR_YRC_PROXY_USERNAME", "LR_YRC_PROXY_PASSWORD",
     "LR_YRC_USERNAME", "LR_YRC_PASSWORD", "LR_YRC_THROTTLE",
     "LR_YRC_SSLCACERT", "LR_YRC_SSLCLIENTCERT", "LR_YRC_SSLCLIENTKEY"}

ListOptions ==
    {"LR_YRC_BASEURL", "LR_YRC_GPGKEY", "LR_YRC_GPGCAKEY", "LR_YRC_EXCLUDE",
     "LR_YRC_INCLUDE", "LR_YRC_DELTAREPOBASEURL"}

\* read with lr_key_file_get_boolean_long
BoolOptions ==
    {"LR_YRC_ENABLED", "LR_YRC_FASTESTMIRROR", "LR_YRC_GPGCHECK",
     "LR_YRC_REPO_GPGCHECK", "LR_YRC_ENABLEGROUPS", "LR_YRC_SSLVERIFY"}

IntOptions == {"LR_YRC_COST", "LR_YRC_PRIORITY"}

\* every case of the two switch statements
Options ==
    {"LR_YRC_ID", "LR_YRC_BANDWIDTH", "LR_YRC_IP_RESOLVE",
     "LR_YRC_METADATA_EXPIRE"}
        \cup TextOptions \cup ListOptions \cup BoolOptions \cup IntOptions

\* an option value that no case matches
OtherOption == "other"

\* the key an option is read from and written to: its name without the
\* prefix, in lower case
KeyOf(option) ==
    CASE option = "LR_YRC_NAME" -> "name"
      [] option = "LR_YRC_ENABLED" -> "enabled"
      [] option = "LR_YRC_BASEURL" -> "baseurl"
      [] option = "LR_YRC_MIRRORLIST" -> "mirrorlist"
      [] option = "LR_YRC_METALINK" -> "metalink"
      [] option = "LR_YRC_MEDIAID" -> "mediaid"
      [] option = "LR_YRC_GPGKEY" -> "gpgkey"
      [] option = "LR_YRC_GPGCAKEY" -> "gpgcakey"
      [] option = "LR_YRC_EXCLUDE" -> "exclude"
      [] option = "LR_YRC_INCLUDE" -> "include"
      [] option = "LR_YRC_FASTESTMIRROR" -> "fastestmirror"
      [] option = "LR_YRC_PROXY" -> "proxy"
      [] option = "LR_YRC_PROXY_USERNAME" -> "proxy_username"
      [] option = "LR_YRC_PROXY_PASSWORD" -> "proxy_password"
      [] option = "LR_YRC_USERNAME" -> "username"
      [] option = "LR_YRC_PASSWORD" -> "password"
      [] option = "LR_YRC_GPGCHECK" -> "gpgcheck"
      [] option = "LR_YRC_REPO_GPGCHECK" -> "repo_gpgcheck"
      [] option = "LR_YRC_ENABLEGROUPS" -> "enablegroups"
      [] option = "LR_YRC_BANDWIDTH" -> "bandwidth"
      [] option = "LR_YRC_THROTTLE" -> "throttle"
      [] option = "LR_YRC_IP_RESOLVE" -> "ip_resolve"
      [] option = "LR_YRC_METADATA_EXPIRE" -> "metadata_expire"
      [] option = "LR_YRC_COST" -> "cost"
      [] option = "LR_YRC_PRIORITY" -> "priority"
      [] option = "LR_YRC_SSLCACERT" -> "sslcacert"
      [] option = "LR_YRC_SSLVERIFY" -> "sslverify"
      [] option = "LR_YRC_SSLCLIENTCERT" -> "sslclientcert"
      [] option = "LR_YRC_SSLCLIENTKEY" -> "sslclientkey"
      [] option = "LR_YRC_DELTAREPOBASEURL" -> "deltarepobaseurl"

Keys == {KeyOf(option) : option \in Options \ {"LR_YRC_ID"}}

(***************************************************************************)
(* The GLib key file.  The model keeps the one group an entry reads and    *)
(* writes, the group named by its id: a function from Keys to the stored   *)
(* (escaped) value, Null for a key the group does not have.  The group     *)
(* exists as long as the entry does: the entry was made from it, and no    *)
(* call removes a group.  All characters of the model are ASCII, so every  *)
(* value passes GLib's UTF-8 validation.                                   *)
(***************************************************************************)
RECURSIVE ParseValueFrom(_, _)
\* g_key_file_parse_value_as_string from position i on: the text with its
\* escapes undone, and whether every escape was a valid one
ParseValueFrom(value, i) ==
    IF i > Len(value) THEN [str |-> <<>>, ok |-> TRUE]
    ELSE IF value[i] # "\\"
    THEN LET r == ParseValueFrom(value, i + 1)
         IN  [str |-> <<value[i]>> \o r.str, ok |-> r.ok]
    ELSE IF i = Len(value)
    THEN [str |-> <<>>, ok |-> FALSE]
    ELSE LET c == value[i + 1]
             r == ParseValueFrom(value, i + 2)
         IN  CASE c = "s" -> [str |-> <<" ">> \o r.str, ok |-> r.ok]
               [] c = "n" -> [str |-> <<"\n">> \o r.str, ok |-> r.ok]
               [] c = "t" -> [str |-> <<"\t">> \o r.str, ok |-> r.ok]
               [] c = "r" -> [str |-> <<"\r">> \o r.str, ok |-> r.ok]
               [] c = "\\" -> [str |-> <<"\\">> \o r.str, ok |-> r.ok]
               [] OTHER -> [str |-> <<"\\", c>> \o r.str, ok |-> FALSE]

RECURSIVE ParseStringFrom(_, _, _, _)
\* g_key_file_parse_string_as_value from position i on: the text escaped for
\* storing
ParseStringFrom(string, i, parsing_leading_space, escape_separator) ==
    IF i > Len(string) THEN <<>>
    ELSE LET c      == string[i]
             rest(leading) == ParseStringFrom(string, i + 1, leading, escape_separator)
         IN  CASE c = " " ->
                    (IF parsing_leading_space THEN <<"\\", "s">> ELSE <<c>>)
                        \o rest(parsing_leading_space)
               [] c = "\t" ->
                    (IF parsing_leading_space THEN <<"\\", "t">> ELSE <<c>>)
                        \o rest(parsing_leading_space)
               [] c = "\n" -> <<"\\", "n">> \o rest(parsing_leading_space)
               [] c = "\r" -> <<"\\", "r">> \o rest(parsing_leading_space)
               [] c = "\\" -> <<"\\", "\\">> \o rest(FALSE)
               [] c = ";" /\ escape_separator -> <<"\\", ";">> \o rest(TRUE)
               [] OTHER -> <<c>> \o rest(FALSE)

\* g_key_file_get_string: the value of the key with its escapes undone.  An
\* invalid escape sets an error and still returns the text
g_key_file_get_string(keyfile, key) ==
    IF keyfile[key] = Null
    THEN [str |-> Null,
          err |-> KeyFileErr("G_KEY_FILE_ERROR_KEY_NOT_FOUND",
                             "Key file does not have key '%s' in group '%s'")]
    ELSE LET r == ParseValueFrom(keyfile[key], 1)
         IN  [str |-> r.str,
              err |-> IF r.ok THEN NoError
                      ELSE KeyFileErr("G_KEY_FILE_ERROR_INVALID_VALUE",
                               "Key file contains key '%s' which has a value that cannot be interpreted.")]

\* g_key_file_set_value
g_key_file_set_value(keyfile, key, value) == [keyfile EXCEPT ![key] = value]

g_key_file_set_string(keyfile, key, string) ==
    g_key_file_set_value(keyfile, key, ParseStringFrom(string, 1, TRUE, FALSE))

RECURSIVE JoinEscaped(_)
\* every element escaped and followed by the list separator
JoinEscaped(list) ==
    IF list = <<>> THEN <<>>
    ELSE ParseStringFrom(Head(list), 1, TRUE, TRUE) \o <<";">> \o JoinEscaped(Tail(list))

g_key_file_set_string_list(keyfile, key, list) ==
    g_key_file_set_value(keyfile, key, JoinEscaped(list))

g_key_file_set_boolean(keyfile, key, value) ==
    g_key_file_set_value(keyfile, key,
        IF value THEN <<"t","r","u","e">> ELSE <<"f","a","l","s","e">>)

\* printf's %d, %ld and %lu of a number
FormatNumber(v) ==
    (IF v.neg THEN <<"-">> ELSE <<>>) \o [i \in 1..Len(v.mag) |-> DigitChar(v.mag[i])]

g_key_file_set_integer(keyfile, key, value) ==
    g_key_file_set_value(keyfile, key, FormatNumber(value))
g_key_file_set_int64(keyfile, key, value) ==
    g_key_file_set_value(keyfile, key, FormatNumber(value))
g_key_file_set_uint64(keyfile, key, value) ==
    g_key_file_set_value(keyfile, key, FormatNumber(value))

\* g_key_file_remove_key, its error ignored
g_key_file_remove_key(keyfile, key) == [keyfile EXCEPT ![key] = Null]

\* g_key_file_get_integer: strtol in base 10 of the stored value, which may
\* be followed by white space; 0 and an error for anything else and for a
\* number that is no gint
g_key_file_get_integer(keyfile, key) ==
    IF keyfile[key] = Null
    THEN [val |-> I(0),
          err |-> KeyFileErr("G_KEY_FILE_ERROR_KEY_NOT_FOUND",
                             "Key file does not have key '%s' in group '%s'")]
    ELSE
    LET value   == keyfile[key]
        p0      == SkipSpace(value, 1)
        neg     == At(value, p0) = "-"
        p       == IF At(value, p0) \in {"-", "+"} THEN p0 + 1 ELSE p0
        n       == DigitRun(value, p)
        eof_int == IF n = 0 THEN 1 ELSE p + n
        mag     == Norm(DecDigitsAt(value, p, n))
        invalid == KeyFileErr("G_KEY_FILE_ERROR_INVALID_VALUE",
                       "Key file contains key '%s' in group '%s' which has a value that cannot be interpreted.")
    IN  IF value = <<>> \/ (At(value, eof_int) # "" /\ ~IsSpace(At(value, eof_int)))
        THEN [val |-> I(0), err |-> invalid]
        ELSE IF ~BigLeq(mag, IF neg THEN INT32_MIN.mag ELSE INT32_MAX.mag)
        THEN [val |-> I(0), err |-> invalid]
        ELSE [val |-> SInt(neg, mag), err |-> NoError]

RECURSIVE SplitSet(_, _)
\* the pieces of a non-empty text between the characters of delimiters
SplitSet(string, delimiters) ==
    IF string = <<>> THEN << <<>> >>
    ELSE LET r == SplitSet(Tail(string), delimiters)
         IN  IF Head(string) \in delimiters THEN << <<>> >> \o r
             ELSE << <<Head(string)>> \o Head(r) >> \o Tail(r)

\* g_strsplit_set(string, delimiters, 0): no piece at all for the empty text
g_strsplit_set(string, delimiters) ==
    IF string = <<>> THEN <<>> ELSE SplitSet(string, delimiters)

\* g_strstrip: without leading and trailing white space
g_strstrip(string) ==
    LET keep == {i \in 1..Len(string) : ~IsSpace(string[i])}
    IN  IF keep = {} THEN <<>>
        ELSE SubSeq(string, Min(keep), CHOOSE i \in keep : \A j \in keep : j <= i)

(***************************************************************************)
(* The key-file helpers of repoconf.c.  A getter yields the value it       *)
(* returns and the error it leaves in *err.                                *)
(***************************************************************************)
lr_key_file_get_boolean(keyfile, key, default_value) ==
    LET r == g_key_file_get_string(keyfile, key)
    IN  IF r.str = Null THEN [val |-> default_value, err |-> r.err]
        ELSE [val |-> StrDown(r.str) \in {<<"1">>, <<"y","e","s">>, <<"t","r","u","e">>},
              err |-> r.err]

lr_key_file_get_boolean_long(keyfile, key, default_value) ==
    LET r == lr_key_file_get_boolean(keyfile, key, default_value)
    IN  [val |-> IF r.val THEN I(1) ELSE I(0), err |-> r.err]

\* the NULL string vector
NoList == <<Null>>

lr_key_file_get_string_list(keyfile, key) ==
    LET r    == g_key_file_get_string(keyfile, key)
        list == g_strsplit_set(r.str, {" ", ",", ";"})
    IN  IF r.str = Null THEN [val |-> NoList, err |-> r.err]
        ELSE [val |-> [i \in 1..Len(list) |-> g_strstrip(list[i])], err |-> r.err]

lr_key_file_get_ip_resolve(keyfile, key, default_value) ==
    LET r            == g_key_file_get_string(keyfile, key)
        string_lower == StrDown(r.str)
    IN  IF r.str = Null THEN [val |-> default_value, err |-> r.err]
        ELSE IF string_lower = <<"i","p","v","4">>
        THEN [val |-> "LR_IPRESOLVE_V4", err |-> r.err]
        ELSE IF string_lower = <<"i","p","v","6">>
        THEN [val |-> "LR_IPRESOLVE_V6", err |-> r.err]
        ELSE IF string_lower = <<"w","h","a","t","e","v","e","r">>
        THEN [val |-> "LR_IPRESOLVE_WHATEVER", err |-> r.err]
        ELSE [val |-> default_value,
              err |-> SetError(r.err, Err("LRE_VALUE", "Unknown ip_resolve value '%s'", r.str))]

lr_key_file_set_ip_resolve(keyfile, key, resolve_type) ==
    CASE resolve_type = "LR_IPRESOLVE_WHATEVER" ->
             g_key_file_set_string(keyfile, key, <<"w","h","a","t","e","v","e","r">>)
      [] resolve_type = "LR_IPRESOLVE_V4" ->
             g_key_file_set_string(keyfile, key, <<"i","p","v","4">>)
      [] resolve_type = "LR_IPRESOLVE_V6" ->
             g_key_file_set_string(keyfile, key, <<"i","p","v","6">>)
      [] OTHER -> keyfile

\* the outcomes of the call: one, except where the converter's cast is
\* undefined
lr_key_file_get_metadata_expire(keyfile, key, default_value) ==
    LET r == g_key_file_get_string(keyfile, key)
    IN  IF r.str = Null THEN {[val |-> default_value, err |-> r.err]}
        ELSE {IF c.rc THEN [val |-> c.out, err |-> r.err]
                      ELSE [val |-> I(-1), err |-> SetError(r.err, c.err)] :
              c \in lr_convert_interval_to_seconds(r.str)}

lr_key_file_get_bandwidth(keyfile, key, default_value) ==
    LET r == g_key_file_get_string(keyfile, key)
    IN  IF r.str = Null THEN {[val |-> default_value, err |-> r.err]}
        ELSE {IF c.rc THEN [val |-> c.out, err |-> r.err]
                      ELSE [val |-> I(0), err |-> SetError(r.err, c.err)] :
              c \in lr_convert_bandwidth_to_bytes(r.str)}

lr_key_file_set_string(keyfile, key, str) ==
    IF str = Null THEN g_key_file_remove_key(keyfile, key)
    ELSE g_key_file_set_string(keyfile, key, str)

\* g_strv_length of a NULL vector is not taken: len stays 0
lr_key_file_set_string_list(keyfile, key, list) ==
    IF list = NoList \/ Len(list) = 0 THEN g_key_file_remove_key(keyfile, key)
    ELSE g_key_file_set_string_list(keyfile, key, list)

(***************************************************************************)
(* Conversions between C integer types                                     *)
(***************************************************************************)
\* v modulo 2^32, as a natural number
Mod32(v) ==
    LET m == BigSub(v.mag, MulPow2(DivPow2(v.mag, 32), 32))
    IN  IF v.neg /\ ~IsZero(m) THEN BigSub(Two32, m) ELSE m

\* the conversion to guint
ToUint32(v) == SInt(FALSE, Mod32(v))

\* the conversion to gint (and to gboolean, which is gint)
ToInt32(v) ==
    LET u == Mod32(v)
    IN  IF BigLess(u, Two31) THEN SInt(FALSE, u) ELSE SInt(TRUE, BigSub(Two32, u))

(***************************************************************************)
(* The entry (LrYumRepoConf): its id and the key file of its repo file.    *)
(* A caller may pass NULL instead of an entry.                             *)
(***************************************************************************)
NullConf == [null |-> TRUE]
IsNullConf(repoconf) == "null" \in DOMAIN repoconf

\* the defaults of repoconf.h
LR_YUMREPOCONF_IP_RESOLVE_DEFAULT == "LR_IPRESOLVE_WHATEVER"
LR_YUMREPOCONF_METADATA_EXPIRE_DEFAULT == I(172800)

\* what the switch of lr_yumrepoconf_getinfo leaves for an option: whether
\* the caller's variable was written, the value written, and tmp_err
GetInfoSwitch(keyfile, id, option) ==
    LET Wrote(r) == [wrote |-> TRUE, val |-> r.val, err |-> r.err]
        key == KeyOf(option)
    IN  CASE option = "LR_YRC_ID" ->
                 {[wrote |-> TRUE, val |-> id, err |-> NoError]}
          [] option \in TextOptions ->
                 LET r == g_key_file_get_string(keyfile, key)
                 IN  {[wrote |-> TRUE, val |-> r.str, err |-> r.err]}
          [] option \in BoolOptions ->
                 {Wrote(lr_key_file_get_boolean_long(keyfile, key, TRUE))}
          [] option \in ListOptions ->
                 {Wrote(lr_key_file_get_string_list(keyfile, key))}
          [] option = "LR_YRC_BANDWIDTH" ->
                 \* the default passed is TRUE, that is 1
                 {Wrote(r) : r \in lr_key_file_get_bandwidth(keyfile, key, I(1))}
          [] option = "LR_YRC_IP_RESOLVE" ->
                 {Wrote(lr_key_file_get_ip_resolve(keyfile, key,
                                                   LR_YUMREPOCONF_IP_RESOLVE_DEFAULT))}
          [] option = "LR_YRC_METADATA_EXPIRE" ->
                 {Wrote(r) : r \in lr_key_file_get_metadata_expire(keyfile, key,
                                LR_YUMREPOCONF_METADATA_EXPIRE_DEFAULT)}
          [] option \in IntOptions ->
                 {Wrote(g_key_file_get_integer(keyfile, key))}
          [] OTHER -> {[wrote |-> FALSE, val |-> Null, err |-> NoError]}

\* a faulty translation of tmp_err: a key that is not found is reported like
\* any other failure of the key file
GetInfoErrorAlwaysKeyFile(tmp_err) ==
    [domain |-> "LR_REPOCONF_ERROR", code |-> "LRE_KEYFILE",
     fmt |-> "Cannot get value of option %d: %s", arg |-> tmp_err.arg,
     cause |-> tmp_err.fmt]

\* the error lr_yumrepoconf_getinfo reports for the tmp_err of its switch
GetInfoError(tmp_err) ==
    IF tmp_err.code = "G_KEY_FILE_ERROR_KEY_NOT_FOUND"
    THEN Err("LRE_NOTSET", "Value of option %d is not set", <<>>)
    ELSE [domain |-> "LR_REPOCONF_ERROR", code |-> "LRE_KEYFILE",
          fmt |-> "Cannot get value of option %d: %s", arg |-> tmp_err.arg,
          cause |-> tmp_err.fmt]

\* the outcomes of lr_yumrepoconf_getinfo(repoconf, err, option, &val): the
\* return value, *err, and val if it was written.  The key file of an entry
\* is never NULL: an entry is only made from a loaded file
lr_yumrepoconf_getinfo(repoconf, option) ==
    IF IsNullConf(repoconf)
    THEN {[rc |-> FALSE, err |-> Err("LRE_BADFUNCARG", "No config specified", <<>>),
           wrote |-> FALSE, val |-> Null]}
    ELSE {[rc    |-> r.err = NoError,
           err   |-> IF r.err = NoError THEN NoError ELSE GetInfoError(r.err),
           wrote |-> r.wrote,
           val   |-> r.val] :
          r \in GetInfoSwitch(repoconf.keyfile, repoconf.id, option)}

\* a faulty LR_YRC_ID case: the error is not set
IdNotGuarded == NoError

\* g_set_error(&tmp_err, ...) for LR_YRC_ID
ReadOnlyError == Err("LRE_BADOPTARG", "ID is read only option", <<>>)

\* a faulty LR_YRC_PRIORITY case: the guint is written as it is, without
\* the conversion back to gint
PriorityAsGuint(arg) == ToUint32(arg)

\* the gint that g_key_file_set_integer gets for LR_YRC_PRIORITY: the
\* argument goes through "guint val"
PriorityValue(arg) == ToInt32(ToUint32(arg))

\* the key file after the switch of lr_yumrepoconf_setopt, and tmp_err; arg
\* is the variadic argument, read as the case reads it
SetOptSwitch(keyfile, option, arg) ==
    LET key == KeyOf(option)
        Ok(kf) == [keyfile |-> kf, err |-> NoError]
    IN  CASE option = "LR_YRC_ID" -> [keyfile |-> keyfile, err |-> ReadOnlyError]
          [] option \in TextOptions -> Ok(lr_key_file_set_string(keyfile, key, arg))
          [] option = "LR_YRC_ENABLED" ->
                 Ok(g_key_file_set_boolean(keyfile, key, ~IsZero(arg.mag)))
          [] option \in ListOptions \cup {"LR_YRC_FASTESTMIRROR"} ->
                 Ok(lr_key_file_set_string_list(keyfile, key, arg))
          [] option \in BoolOptions \ {"LR_YRC_ENABLED", "LR_YRC_FASTESTMIRROR"} ->
                 Ok(g_key_file_set_boolean(keyfile, key, ~IsZero(ToInt32(arg).mag)))
          [] option = "LR_YRC_BANDWIDTH" -> Ok(g_key_file_set_uint64(keyfile, key, arg))
          [] option = "LR_YRC_IP_RESOLVE" -> Ok(lr_key_file_set_ip_resolve(keyfile, key, arg))
          [] option = "LR_YRC_METADATA_EXPIRE" -> Ok(g_key_file_set_int64(keyfile, key, arg))
          [] option = "LR_YRC_COST" -> Ok(g_key_file_set_integer(keyfile, key, arg))
          [] option = "LR_YRC_PRIORITY" ->
                 Ok(g_key_file_set_integer(keyfile, key, PriorityValue(arg)))
          [] OTHER -> Ok(keyfile)

\* lr_yumrepoconf_setopt(repoconf, err, option, arg): the return value, *err
\* and the entry afterwards
lr_yumrepoconf_setopt(repoconf, option, arg) ==
    IF IsNullConf(repoconf)
    THEN [rc |-> FALSE, err |-> Err("LRE_BADFUNCARG", "No config specified", <<>>),
          repoconf |-> repoconf]
    ELSE LET r == SetOptSwitch(repoconf.keyfile, option, arg)
         IN  [rc |-> r.err = NoError, err |-> r.err,
              repoconf |-> [id |-> repoconf.id, keyfile |-> r.keyfile]]

(***************************************************************************)
(* lr_load_multiline_key_file: the lines of a file are joined into the     *)
(* text the key file is loaded from.  Texts are sequences of characters    *)
(* without NUL.                                                            *)
(***************************************************************************)
\* g_strsplit(string, "\n", -1): the pieces between the delimiters, none at
\* all for the empty text
g_strsplit(string, delimiter) == g_strsplit_set(string, {delimiter})

\* a faulty g_strdelimit call: the text is left as it is
g_strdelimit_nothing(string, delimiters, new_delimiter) == string

\* g_strdelimit(string, delimiters, new_delimiter)
g_strdelimit(string, delimiters, new_delimiter) ==
    [k \in 1..Len(string) |->
        IF string[k] \in delimiters THEN new_delimiter ELSE string[k]]

\* g_ascii_isspace
AsciiSpace == {" ", "\t", "\n", "\r", "\f"}

\* g_strchug: without its leading white space
g_strchug(string) == From(string, RunEnd(string, 1, AsciiSpace))

\* what the byte in front of the buffer of a GString can be taken for: an
\* '=' or anything else.  It is no part of the buffer
BeforeBuffer == {"=", "other"}

\* a faulty join: the ';' is put in whatever the buffer ends with
JoinLineAlwaysSemicolon(string, last, line) ==
    string \o <<";">> \o line \o <<"\n">>

\* "only add a ';' if we have anything after the '='": the buffer with the
\* line appended to it; last is the character the buffer is taken to end
\* with
JoinLine(string, last, line) ==
    IF last = "=" THEN string \o line \o <<"\n">>
    ELSE string \o <<";">> \o line \o <<"\n">>

\* one pass of the loop over the lines: the buffer after lines[i], whether
\* the line was appended to the previous one, and whether string->str[-1]
\* was read.  More than one outcome only where that byte decides
AppendLine(string, line) ==
    LET delimited == g_strdelimit(line, {"\t"}, " ")
        shorter   == Front(string)
        chugged   == g_strchug(delimited)
        Joined(last) == JoinLine(shorter, last, chugged)
    IN  IF At(delimited, 1) = " " /\ Len(string) > 0
        THEN IF Len(shorter) = 0
             THEN {[string |-> Joined(last), cont |-> TRUE, under |-> TRUE] :
                   last \in BeforeBuffer}
             ELSE {[string |-> Joined(Last(shorter)), cont |-> TRUE, under |-> FALSE]}
        ELSE {[string |-> string \o delimited \o <<"\n">>, cont |-> FALSE,
               under |-> FALSE]}

\* "remove final newline"
RemoveFinalNewline(string) == IF Len(string) > 0 THEN Front(string) ELSE string

RECURSIVE AppendLines(_, _)
\* the buffers the loop can end with for the first n lines
AppendLines(lines, n) ==
    IF n = 0 THEN {<<>>}
    ELSE UNION {{r.string : r \in AppendLine(string, lines[n])} :
                string \in AppendLines(lines, n - 1)}

\* the texts the key file can be loaded from, for the content of a file
NormalizedTexts(data) ==
    LET lines == g_strsplit(data, "\n")
    IN  {RemoveFinalNewline(string) : string \in AppendLines(lines, Len(lines))}

(***************************************************************************)
(* g_key_file_load_from_data, as far as lr_yum_repoconfs_parse depends on  *)
(* it: whether the text is a key file, and the groups it has, in the       *)
(* order g_key_file_get_groups reports them.                               *)
(***************************************************************************)
\* g_ascii_iscntrl, for the characters of the model
AsciiCntrl == {"\t", "\n", "\r", "\f"}

\* the characters of a locale tag
LocaleChars == Range(DecChars) \cup Range(UpperChars) \cup Range(LowerChars)
                   \cup {"-", "_", ".", "@"}

\* the lines g_key_file_parse_data hands on: the pieces between newlines,
\* each but the last without a carriage return at its end
ParseLines(data) ==
    LET pieces == SplitSet(data, {"\n"})
    IN  [k \in 1..Len(pieces) |->
            IF k < Len(pieces) /\ pieces[k] # <<>> /\ Last(pieces[k]) = "\r"
            THEN Front(pieces[k]) ELSE pieces[k]]

\* g_key_file_line_is_comment
g_key_file_line_is_comment(line) == At(line, 1) \in {"#", "", "\n"}

\* g_key_file_line_is_group
g_key_file_line_is_group(line) ==
    /\ At(line, 1) = "["
    /\ LET close == RunEnd(line, 2, Range(line) \ {"]"})
       IN  /\ At(line, close) = "]"
           /\ RunEnd(line, close + 1, {" ", "\t"}) > Len(line)

\* g_key_file_line_is_key_value_pair
g_key_file_line_is_key_value_pair(line) ==
    "=" \in Range(line) /\ At(line, 1) # "="

\* g_key_file_is_group_name
g_key_file_is_group_name(name) ==
    /\ name # <<>>
    /\ \A k \in 1..Len(name) : name[k] \notin {"[", "]"} \cup AsciiCntrl

\* g_key_file_is_key_name
g_key_file_is_key_name(name) ==
    LET q    == RunEnd(name, 1, Range(name) \ {"=", "[", "]"})
        tag  == RunEnd(name, q + 1, LocaleChars)
        endq == IF At(name, q) = "[" THEN tag + 1 ELSE q
    IN  /\ q > 1
        /\ name[1] # " "
        /\ name[q - 1] # " "
        /\ At(name, q) = "[" => At(name, tag) = "]"
        /\ endq > Len(name)

\* the key of a key-value line: the text before the '=', without the white
\* space at its end
KeyOfLine(line) ==
    LET eq   == Min({k \in 1..Len(line) : line[k] = "="})
        keep == {k \in 1..(eq - 1) : line[k] \notin AsciiSpace}
    IN  SubSeq(line, 1, CHOOSE k \in keep : \A j \in keep : j <= k)

\* the name of a group line
GroupOfLine(line_start) ==
    SubSeq(line_start, 2, RunEnd(line_start, 2, Range(line_start) \ {"]"}) - 1)

RECURSIVE ParseFrom(_, _, _, _)
\* g_key_file_parse_data from line k on: groups are the groups so far and
\* current says whether a group was started
ParseFrom(lines, k, groups, current) ==
    IF k > Len(lines) THEN [ok |-> TRUE, groups |-> groups, err |-> NoError]
    ELSE
    LET line       == lines[k]
        line_start == g_strchug(line)
        group_name == GroupOfLine(line_start)
        Fail(code, fmt) ==
            [ok |-> FALSE, groups |-> <<>>, err |-> KeyFileErr(code, fmt)]
    IN  IF g_key_file_line_is_comment(line_start)
        THEN ParseFrom(lines, k + 1, groups, current)
        ELSE IF g_key_file_line_is_group(line_start)
        THEN IF ~g_key_file_is_group_name(group_name)
             THEN Fail("G_KEY_FILE_ERROR_PARSE", "Invalid group name: %s")
             ELSE ParseFrom(lines, k + 1,
                            IF group_name \in Range(groups) THEN groups
                            ELSE Append(groups, group_name),
                            TRUE)
        ELSE IF g_key_file_line_is_key_value_pair(line_start)
        THEN IF ~current
             THEN Fail("G_KEY_FILE_ERROR_GROUP_NOT_FOUND",
                       "Key file does not start with a group")
             ELSE IF ~g_key_file_is_key_name(KeyOfLine(line))
             THEN Fail("G_KEY_FILE_ERROR_PARSE", "Invalid key name: %s")
             ELSE ParseFrom(lines, k + 1, groups, current)
        ELSE Fail("G_KEY_FILE_ERROR_PARSE",
                  "Key file contains line '%s' which is not a key-value pair, group, or comment")

\* g_key_file_load_from_data(file, data, -1, G_KEY_FILE_KEEP_COMMENTS, &err)
g_key_file_load_from_data(data) == ParseFrom(ParseLines(data), 1, <<>>, FALSE)

\* a key file that was loaded: lr_load_multiline_key_file returns it, or
\* NULL with *err set
LoadedFrom(string) ==
    LET r == g_key_file_load_from_data(string)
    IN  IF r.ok THEN [ok |-> TRUE, groups |-> r.groups, err |-> NoError]
        ELSE [ok |-> FALSE, groups |-> <<>>,
              err |-> [domain |-> "LR_REPOCONF_ERROR", code |-> "LRE_KEYFILE",
                       fmt |-> "Cannot parse key file %s: %s", arg |-> <<>>,
                       cause |-> r.err.fmt]]

\* the file could not be read
NotLoaded ==
    [ok |-> FALSE, groups |-> <<>>,
     err |-> Err("LRE_FILE", "Cannot load content of %s: %s", <<>>)]

\* the outcomes of lr_load_multiline_key_file(filename, err) for a file with
\* the content data (Null: a file that cannot be read)
lr_load_multiline_key_file(data) ==
    IF data = Null THEN {NotLoaded}
    ELSE {LoadedFrom(string) : string \in NormalizedTexts(data)}

(***************************************************************************)
(* The store of the loaded files: lr_yum_repoconfs_parse, _load_dir, _free *)
(*                                                                         *)
(* repos is the LrYumRepoConfs: repos.files the LrYumRepoFile objects and  *)
(* repos.repos the LrYumRepoConf objects, an object's file being the place *)
(* of its LrYumRepoFile in repos.files.  heap is what is allocated: the    *)
(* store, the LrYumRepoFile and LrYumRepoConf objects by their places, the *)
(* key files by their numbers; heap.made counts the key files ever made.   *)
(***************************************************************************)
\* the file names of the directories
ARepo == <<"a", ".", "r", "e", "p", "o">>
BRepo == <<"b", ".", "r", "e", "p", "o">>
CRepo == <<"c", ".", "r", "e", "p", "o">>
ERepo == <<"e", ".", "r", "e", "p", "o">>
DRep  == <<"d", ".", "r", "e", "p">>

\* the directories there are, and the names in them
Dirs == {<<"p">>, <<"q">>, <<"r">>}
DirNames(path) ==
    CASE path = <<"p">> -> {ARepo, CRepo, DRep}
      [] path = <<"q">> -> {ARepo, BRepo, CRepo, ERepo}
      [] OTHER -> {}

\* the directories lr_yum_repoconfs_load_dir is called with: one is missing
DirPaths == Dirs \cup {<<"s">>}

\* the contents of the files, by the last component of their path: a section
\* with a continued value, a key before any section, two sections of which
\* one has the name of the first file's, a line that is nothing (in a file
\* that is no .repo file), and a file that cannot be read
Contents(filename) ==
    LET name == From(filename, Len(filename) - 5)
    IN  CASE name = ARepo -> <<"[", "a", "]", "\n", "k", "=", "v", "\n", " ", "w">>
          [] name = BRepo -> <<"k", "=", "v">>
          [] name = CRepo -> <<"[", "b", "]", "\n", "[", "a", "]">>
          [] From(filename, Len(filename) - 4) = DRep -> <<"x">>
          [] OTHER -> Null

\* a faulty g_str_has_suffix: every name has the suffix
g_str_has_any_suffix(str, suffix) == TRUE

\* g_str_has_suffix(str, suffix)
g_str_has_suffix(str, suffix) ==
    /\ Len(str) >= Len(suffix)
    /\ SubSeq(str, Len(str) - Len(suffix) + 1, Len(str)) = suffix

\* g_build_filename(path, file, NULL), for a path and a file without
\* separators
g_build_filename(path, filename) == path \o <<"/">> \o filename

\* lr_yum_repoconfs_init(): an empty store, and the heap with it alone
EmptyStore == [files |-> <<>>, repos |-> <<>>]
StoreAlone == [store |-> TRUE, files |-> {}, repos |-> {}, keyfiles |-> {}, made |-> 0]

\* g_key_file_new(): one more key file, with the next number
g_key_file_new(heap) ==
    [heap EXCEPT !.made = @ + 1, !.keyfiles = @ \cup {heap.made + 1}]

\* a faulty g_key_file_free: the key file stays
g_key_file_kept(heap, keyfile) == heap

\* g_key_file_free(file)
g_key_file_free(heap, keyfile) == [heap EXCEPT !.keyfiles = @ \ {keyfile}]

\* lr_yum_repofile_init(path, keyfile): the object, the key file being its
\* number and its groups
lr_yum_repofile_init(path, keyfile) == [path |-> path, keyfile |-> keyfile]

\* a faulty lr_yum_repoconf_init: the object is of the first file
lr_yum_repoconf_first(repofile, id) == [file |-> 1, id |-> id]

\* lr_yum_repoconf_init(repofile, id)
lr_yum_repoconf_init(repofile, id) == [file |-> repofile, id |-> id]

\* lr_yum_repoconfs_parse(repos, filename, err) with one outcome of
\* lr_load_multiline_key_file: what it returns and leaves
ParseWith(repos, heap, filename, loaded) ==
    LET made     == g_key_file_new(heap)
        keyfile  == [handle |-> made.made, groups |-> loaded.groups]
        repofile == Len(repos.files) + 1
        files    == Append(repos.files, lr_yum_repofile_init(filename, keyfile))
        confs    == [n \in 1..Len(loaded.groups) |->
                        lr_yum_repoconf_init(repofile, loaded.groups[n])]
        first    == Len(repos.repos)
    IN  IF loaded.ok
        THEN [rc |-> TRUE, err |-> NoError,
              repos |-> [files |-> files, repos |-> repos.repos \o confs],
              heap |-> [made EXCEPT !.files = @ \cup {repofile},
                                    !.repos = @ \cup (first + 1 .. first + Len(confs))]]
        ELSE [rc |-> FALSE, err |-> [loaded.err EXCEPT !.arg = filename],
              repos |-> repos,
              heap |-> IF loaded.err.code = "LRE_KEYFILE"
                       THEN g_key_file_free(made, made.made)
                       ELSE heap]

\* lr_yum_repoconfs_parse(repos, filename, err)
lr_yum_repoconfs_parse(repos, heap, filename) ==
    {ParseWith(repos, heap, filename, loaded) :
        loaded \in lr_load_multiline_key_file(Contents(filename))}

RECURSIVE ReadNames(_, _, _, _, _, _)
\* the loop of lr_yum_repoconfs_load_dir from the k-th name g_dir_read_name
\* gives on; parsed is the files lr_yum_repoconfs_parse was called with
ReadNames(repos, heap, path, names, k, parsed) ==
    IF k > Len(names)
    THEN {[rc |-> TRUE, err |-> NoError, repos |-> repos, heap |-> heap,
           parsed |-> parsed]}
    ELSE IF ~g_str_has_suffix(names[k], <<".", "r", "e", "p", "o">>)
    THEN ReadNames(repos, heap, path, names, k + 1, parsed)
    ELSE LET path_tmp == g_build_filename(path, names[k])
             called   == Append(parsed, path_tmp)
         IN  UNION {IF r.rc
                    THEN ReadNames(r.repos, r.heap, path, names, k + 1, called)
                    ELSE {[rc |-> FALSE, err |-> r.err, repos |-> r.repos,
                           heap |-> r.heap, parsed |-> called]} :
                    r \in lr_yum_repoconfs_parse(repos, heap, path_tmp)}

\* lr_yum_repoconfs_load_dir(repos, path, err), the directory giving its
\* names in the order names
lr_yum_repoconfs_load_dir(repos, heap, path, names) ==
    IF path \notin Dirs
    THEN {[rc |-> FALSE,
           err |-> Err("LRE_KEYFILE", "Cannot open dir %s: %s", path),
           repos |-> repos, heap |-> heap, parsed |-> <<>>]}
    ELSE ReadNames(repos, heap, path, names, 1, <<>>)

\* lr_yum_repoconfs_free(repos): the LrYumRepoConf objects and the store
\* are freed
lr_yum_repoconfs_free(repos, heap) == [heap EXCEPT !.store = FALSE, !.repos = {}]

(***************************************************************************)
(* State                                                                   *)
(***************************************************************************)
VARIABLES
    cvStr,      \* the text a converter is called with (Null: a NULL pointer)
    cvRes,      \* the last converter call: which one, and what it left
    entry,      \* the entry: its id and the key file it reads and writes
    setres,     \* the last lr_yumrepoconf_setopt call: arguments and results
    getres,     \* the last lr_yumrepoconf_getinfo call since then
    nsets,      \* how many lr_yumrepoconf_setopt calls were made
    data,       \* the content of the file being loaded (Null: unreadable)
    pc,         \* where lr_load_multiline_key_file is
    idx,        \* how many of the lines the loop has been through
    string,     \* the buffer the lines are appended to
    step,       \* what the last pass of the loop did with its line
    file,       \* what lr_load_multiline_key_file returned
    repos,      \* the store of the loaded files (Null: none)
    heap,       \* what is allocated of the store and for it
    last,       \* the last call on the store, and the store before it
    ncalls      \* how many files and directories the store was given

\* the variables of the loader
loadVars == <<data, pc, idx, string, step, file>>

\* the variables of the store
storeVars == <<repos, heap, last, ncalls>>

vars == <<cvStr, cvRes, entry, setres, getres, nsets, loadVars, storeVars>>

\* the longest text given to a converter
MaxLen == 3

\* the most lr_yumrepoconf_setopt calls of a run
MaxSets == 1

\* the characters of the converters' texts: digits, a sign, an exponent
\* mark, the hex mark, a blank, every time unit, two bandwidth units, one in
\* upper case
Alphabet == {"0", "1", "2", "5", "-", "e", "x", " ",
             "s", "m", "h", "d", "k", "g", "M"}

TextsUpTo(n) == UNION {[1..k -> Alphabet] : k \in 0..n}

NotCalled == [op |-> "none", rc |-> FALSE, out |-> I(0), err |-> NoError]

\* no call of an accessor yet
NoCall == [op |-> "none"]

\* the section the entry was made from
SectionName == <<"r","e","p","o">>

\* a section without keys
EmptyFile == [key \in Keys |-> Null]

\* a section as a repo file has it
ValidFile ==
    [key \in Keys |->
        CASE key = "name" -> <<"x">>
          [] key = "enabled" -> <<"0">>
          [] key = "baseurl" -> <<"a",",","b"," ","c">>
          [] key = "fastestmirror" -> <<"Y","e","s">>
          [] key = "bandwidth" -> <<"2","M">>
          [] key = "ip_resolve" -> <<"I","P","v","4">>
          [] key = "metadata_expire" -> <<"1","h">>
          [] key = "cost" -> <<"5">>
          [] key = "priority" -> <<"-","7"," ">>
          [] OTHER -> Null]

\* a section whose values are not what their options take
InvalidFile ==
    [key \in Keys |->
        CASE key = "name" -> <<"a","\\","q">>
          [] key = "enabled" -> <<"o","n">>
          [] key = "baseurl" -> <<>>
          [] key = "bandwidth" -> <<"b","o","g","u","s">>
          [] key = "ip_resolve" -> <<"i","p","v","5">>
          [] key = "metadata_expire" -> <<"1","0">>
          [] key = "cost" -> <<"a","b","c">>
          [] key = "priority" -> <<"2","1","4","7","4","8","3","6","4","8">>
          [] OTHER -> Null]

InitialFiles == {EmptyFile, ValidFile, InvalidFile}

\* the arguments lr_yumrepoconf_setopt is called with, by option
ArgsOf(option) ==
    CASE option = "LR_YRC_ID" -> {Null, <<"z">>}
      [] option \in TextOptions -> {Null, <<>>, <<" ","a",";","\\","\n">>}
      [] option \in ListOptions \cup {"LR_YRC_FASTESTMIRROR"} ->
             {NoList, <<>>, << <<"a">> >>, << <<"a"," ","b">>, <<"c">> >>}
      [] option \in BoolOptions -> {I(0), I(1), SInt(FALSE, Two32)}
      [] option = "LR_YRC_BANDWIDTH" -> {I(10), UINT64_MAX}
      [] option = "LR_YRC_IP_RESOLVE" ->
             {"LR_IPRESOLVE_WHATEVER", "LR_IPRESOLVE_V4", "LR_IPRESOLVE_V6", "other"}
      [] option = "LR_YRC_METADATA_EXPIRE" -> {I(10), INT64_MIN}
      [] option \in IntOptions -> {I(-5), INT32_MIN, INT32_MAX}
      [] OTHER -> {Null}

\* the handle a caller passes with an option: the entry, or NULL (with two
\* of the options: a call with NULL does not look at its option)
HandlesFor(option) ==
    IF option \in {"LR_YRC_ID", "LR_YRC_NAME"} THEN {NullConf, entry} ELSE {entry}

\* no pass of the loop yet
NoStep == [cont |-> FALSE, under |-> FALSE]

\* no file is being loaded
NoLoad ==
    /\ data = Null
    /\ pc = "idle"
    /\ idx = 0
    /\ string = <<>>
    /\ step = NoStep
    /\ file = NoCall

\* no store was made
NoStore ==
    /\ repos = Null
    /\ heap = [StoreAlone EXCEPT !.store = FALSE]
    /\ last = NoCall
    /\ ncalls = 0

\* no accessor and no converter is called
NoAccess ==
    /\ cvStr = Null
    /\ cvRes = NotCalled
    /\ entry = [id |-> SectionName, keyfile |-> EmptyFile]
    /\ setres = NoCall
    /\ getres = NoCall
    /\ nsets = 0

ConvInit ==
    /\ cvStr \in {Null} \cup TextsUpTo(MaxLen)
    /\ cvRes = NotCalled
    /\ entry = [id |-> SectionName, keyfile |-> EmptyFile]
    /\ setres = NoCall
    /\ getres = NoCall
    /\ nsets = 0
    /\ NoLoad
    /\ NoStore

ConvertInterval ==
    /\ \E r \in lr_convert_interval_to_seconds(cvStr) :
          cvRes' = [op |-> "interval", rc |-> r.rc, out |-> r.out, err |-> r.err]
    /\ UNCHANGED <<cvStr, entry, setres, getres, nsets, loadVars, storeVars>>

ConvertBandwidth ==
    /\ \E r \in lr_convert_bandwidth_to_bytes(cvStr) :
          cvRes' = [op |-> "bandwidth", rc |-> r.rc, out |-> r.out, err |-> r.err]
    /\ UNCHANGED <<cvStr, entry, setres, getres, nsets, loadVars, storeVars>>

ConvNext == ConvertInterval \/ ConvertBandwidth

\* the converters, called with every text up to MaxLen characters
ConvSpec == ConvInit /\ [][ConvNext]_vars

ConfInit ==
    /\ cvStr = Null
    /\ cvRes = NotCalled
    /\ \E keyfile \in InitialFiles : entry = [id |-> SectionName, keyfile |-> keyfile]
    /\ setres = NoCall
    /\ getres = NoCall
    /\ nsets = 0
    /\ NoLoad
    /\ NoStore

\* One call is recorded after each lr_yumrepoconf_setopt: a further call
\* changes nothing it reads, and leads to a state this one leads to as well
GetInfo ==
    /\ getres = NoCall
    /\ \E option \in Options \cup {OtherOption} : \E repoconf \in HandlesFor(option) :
          \E r \in lr_yumrepoconf_getinfo(repoconf, option) :
              getres' = [op |-> "getinfo", null |-> IsNullConf(repoconf),
                         option |-> option, rc |-> r.rc, err |-> r.err,
                         wrote |-> r.wrote, val |-> r.val]
    /\ UNCHANGED <<cvStr, cvRes, entry, setres, nsets, loadVars, storeVars>>

SetOpt ==
    /\ nsets < MaxSets
    /\ \E option \in Options \cup {OtherOption} : \E repoconf \in HandlesFor(option) :
          \E arg \in ArgsOf(option) :
              LET r == lr_yumrepoconf_setopt(repoconf, option, arg)
              IN  /\ entry' = IF IsNullConf(repoconf) THEN entry ELSE r.repoconf
                  /\ setres' = [op |-> "setopt", null |-> IsNullConf(repoconf),
                                option |-> option, arg |-> arg,
                                rc |-> r.rc, err |-> r.err]
    /\ getres' = NoCall
    /\ nsets' = nsets + 1
    /\ UNCHANGED <<cvStr, cvRes, loadVars, storeVars>>

ConfNext == GetInfo \/ SetOpt

\* an entry of a loaded file, read and written through the two accessors
ConfSpec == ConfInit /\ [][ConfNext]_vars

\* the most lines of a file
MaxLines == 4

\* the lines of the files: an empty line, a section, keys with a value and
\* without one, a value that ends with '=', a tab within a line, and lines
\* that begin with blanks or a tab
Lines == {<<>>,
          <<"[", "a", "]">>,
          <<"k", " ", "=">>,
          <<"k", " ", "=", " ", "a">>,
          <<"k", " ", "=", " ", "a", "=">>,
          <<"x", "\t", "y">>,
          <<" ", " ", "b">>,
          <<" ">>,
          <<"\t", "c">>}

\* the lines with a newline between each two of them
RECURSIVE JoinLines(_)
JoinLines(lines) ==
    IF Len(lines) = 0 THEN <<>>
    ELSE IF Len(lines) = 1 THEN lines[1]
    ELSE lines[1] \o <<"\n">> \o JoinLines(Tail(lines))

\* the files: every sequence of up to MaxLines of the lines
Files == {JoinLines(lines) : lines \in UNION {[1..n -> Lines] : n \in 0..MaxLines}}

LoadInit ==
    /\ NoAccess
    /\ data \in {Null} \cup Files
    /\ pc = "read"
    /\ idx = 0
    /\ string = <<>>
    /\ step = NoStep
    /\ file = NoCall
    /\ NoStore

\* g_file_get_contents, and the buffer and the lines made of the content
ReadFile ==
    /\ pc = "read"
    /\ IF data = Null
       THEN /\ pc' = "done"
            /\ file' = NotLoaded
       ELSE /\ pc' = "loop"
            /\ file' = file
    /\ UNCHANGED <<cvStr, cvRes, entry, setres, getres, nsets, data, idx, string, step>>
    /\ UNCHANGED storeVars

\* one pass of the loop over the lines
NextLine ==
    /\ pc = "loop"
    /\ idx < Len(g_strsplit(data, "\n"))
    /\ \E r \in AppendLine(string, g_strsplit(data, "\n")[idx + 1]) :
          /\ string' = r.string
          /\ step' = [cont |-> r.cont, under |-> r.under]
    /\ idx' = idx + 1
    /\ UNCHANGED <<cvStr, cvRes, entry, setres, getres, nsets, data, pc, file>>
    /\ UNCHANGED storeVars

\* after the loop: the final newline is removed and the key file is loaded
\* from the buffer
LoadKeyFile ==
    /\ pc = "loop"
    /\ idx = Len(g_strsplit(data, "\n"))
    /\ string' = RemoveFinalNewline(string)
    /\ file' = LoadedFrom(string')
    /\ pc' = "done"
    /\ UNCHANGED <<cvStr, cvRes, entry, setres, getres, nsets, data, idx, step>>
    /\ UNCHANGED storeVars

LoadNext == ReadFile \/ NextLine \/ LoadKeyFile

\* lr_load_multiline_key_file, called with every file of up to MaxLines
\* lines
LoadSpec == LoadInit /\ [][LoadNext]_vars

\* the most files and directories a store is given
MaxCalls == 2

\* the orders g_dir_read_name can give the names of a directory in
Orders(names) ==
    {order \in [1..Cardinality(names) -> names] :
        \A m, n \in 1..Cardinality(names) : order[m] = order[n] => m = n}

\* the files lr_yum_repoconfs_parse is called with by a caller
Paths == {g_build_filename(<<"q">>, filename) : filename \in {ARepo, BRepo, CRepo, ERepo}}

\* the state after lr_yum_repoconfs_init()
StoreInit ==
    /\ NoAccess
    /\ NoLoad
    /\ repos = EmptyStore
    /\ heap = StoreAlone
    /\ last = NoCall
    /\ ncalls = 0

Parse ==
    /\ heap.store
    /\ ncalls < MaxCalls
    /\ \E filename \in Paths :
          \E r \in lr_yum_repoconfs_parse(repos, heap, filename) :
              /\ repos' = r.repos
              /\ heap' = r.heap
              /\ last' = [op |-> "parse", path |-> filename, names |-> <<>>,
                          rc |-> r.rc, err |-> r.err, parsed |-> <<filename>>,
                          repos |-> repos, heap |-> heap]
    /\ ncalls' = ncalls + 1
    /\ UNCHANGED <<cvStr, cvRes, entry, setres, getres, nsets, loadVars>>

LoadDir ==
    /\ heap.store
    /\ ncalls < MaxCalls
    /\ \E path \in DirPaths :
          \E names \in Orders(DirNames(path)) :
              \E r \in lr_yum_repoconfs_load_dir(repos, heap, path, names) :
                  /\ repos' = r.repos
                  /\ heap' = r.heap
                  /\ last' = [op |-> "load_dir", path |-> path, names |-> names,
                              rc |-> r.rc, err |-> r.err, parsed |-> r.parsed,
                              repos |-> repos, heap |-> heap]
    /\ ncalls' = ncalls + 1
    /\ UNCHANGED <<cvStr, cvRes, entry, setres, getres, nsets, loadVars>>

Free ==
    /\ heap.store
    /\ repos' = Null
    /\ heap' = lr_yum_repoconfs_free(repos, heap)
    /\ last' = [op |-> "free", path |-> <<>>, names |-> <<>>, rc |-> TRUE,
                err |-> NoError, parsed |-> <<>>, repos |-> repos, heap |-> heap]
    /\ UNCHANGED <<ncalls, cvStr, cvRes, entry, setres, getres, nsets, loadVars>>

StoreNext == Parse \/ LoadDir \/ Free

\* a store that is given files and directories and then freed
StoreSpec == StoreInit /\ [][StoreNext]_vars

(***************************************************************************)
(* Properties of the unit converters (ConvSpec)                            *)
(***************************************************************************)
\* the text is a run of decimal digits, at least one
AllDigits(str) == Len(str) > 0 /\ \A i \in 1..Len(str) : IsDigit(str[i])

\* the number a run of decimal digits writes
NumberOf(str) == SInt(FALSE, [i \in 1..Len(str) |-> DigitVal(str[i])])

\* a converter was called with a text (not with NULL)
CalledWithText(op) == cvRes.op = op /\ cvStr # Null

FailedWith(code) == ~cvRes.rc /\ cvRes.err.code = code /\ cvRes.out = I(0)

\* C1: lr_convert_interval_to_seconds, given a text that is a number and
\* nothing else, succeeds and yields that number of seconds ("10" is 10).
C1_BareNumberIsSeconds ==
    (CalledWithText("interval") /\ AllDigits(cvStr))
        => (cvRes.rc /\ cvRes.err = NoError /\ cvRes.out = NumberOf(cvStr))

\* the suffix tables as the specification gives them, by unit in lower case
IntervalSuffixes ==
    [s |-> <<1>>, m |-> <<60>>, h |-> <<3600>>, d |-> <<86400>>]
BandwidthSuffixes ==
    [k |-> <<1024>>, m |-> <<1024, 1024>>, g |-> <<1024, 1024, 1024>>]
SuffixesOf(op) == IF op = "interval" THEN IntervalSuffixes ELSE BandwidthSuffixes

\* the characters that can carry a number on after a run of decimal digits
Continues == {".", "e", "E", "x", "X"}

\* the characters a number can start with
Starts == Range(DecChars) \cup {"+", "-", ".", "i", "I", "n", "N", " ", "\t", "\n", "\r"}

\* C2: a converter accepts a remainder after the number only if it is one
\* character of its suffix table, in either case, and then yields the number
\* times the multiplier of the suffix; it fails with LRE_VALUE on any other
\* single character, on a longer remainder and on a text that starts with
\* no number.
C2_SuffixTables ==
    \A op \in {"interval", "bandwidth"} :
        (CalledWithText(op) /\ Len(cvStr) > 0) =>
            LET table  == SuffixesOf(op)
                n      == RunEnd(cvStr, 1, Range(DecChars)) - 1
                digits == SubSeq(cvStr, 1, n)
                rest   == From(cvStr, n + 1)
                unit   == AsciiLower(Last(cvStr))
            IN  /\ (n > 0 /\ Len(rest) = 1 /\ unit \in DOMAIN table) =>
                       /\ cvRes.rc
                       /\ cvRes.err = NoError
                       /\ cvRes.out = SInt(FALSE, BigMulAll(NumberOf(digits).mag,
                                                            table[unit]))
                /\ (n > 0 /\ Len(rest) = 1 /\ unit \notin DOMAIN table) =>
                       FailedWith("LRE_VALUE")
                /\ (n > 0 /\ Len(rest) > 1 /\ rest[1] \notin Continues) =>
                       FailedWith("LRE_VALUE")
                /\ cvStr[1] \notin Starts => FailedWith("LRE_VALUE")
                /\ cvRes.rc => (Len(cvStr) > 1 /\ unit \in DOMAIN table)
                /\ ~cvRes.rc => FailedWith("LRE_VALUE")

\* C2 happens: "2m" is 120 seconds
C2_Witness ==
    /\ cvStr = <<"2", "m">>
    /\ cvRes.op = "interval"
    /\ cvRes.rc
    /\ cvRes.out = I(120)

\* C3 as the specification has it: a converter fails with LRE_BADFUNCARG
\* when it is given NULL and also when it is given the empty text.
C3_EmptyIsBadArgument ==
    (cvRes.op # "none" /\ cvStr \in {Null, <<>>}) => FailedWith("LRE_BADFUNCARG")

\* C3, amended: a converter fails with LRE_BADFUNCARG when it is given NULL;
\* given the empty text it fails with LRE_VALUE (nothing could be converted).
C3_NullIsBadArgument ==
    /\ (cvRes.op # "none" /\ cvStr = Null) =>
           (FailedWith("LRE_BADFUNCARG") /\ cvRes.err.arg = <<>>)
    /\ (cvRes.op # "none" /\ cvStr = <<>>) => FailedWith("LRE_VALUE")

\* C3 happens: the bandwidth converter was given the empty text
C3_Witness ==
    /\ cvStr = <<>>
    /\ cvRes.op = "bandwidth"
    /\ ~cvRes.rc
    /\ cvRes.err.code = "LRE_VALUE"

\* the number of the text is below zero: a minus sign and a magnitude that
\* is not zero
NegativeNumber(str) ==
    LET v == g_ascii_strtod(str)
    IN  v.kind \in {"finite", "inf"} /\ v.neg /\ (v.kind = "inf" \/ ~IsZero(v.mant))

\* C4: lr_convert_bandwidth_to_bytes never succeeds on a text whose number
\* is negative: it fails with LRE_VALUE and the output stays 0.
C4_NegativeBandwidthFails ==
    (CalledWithText("bandwidth") /\ NegativeNumber(cvStr)) => FailedWith("LRE_VALUE")

\* C4 happens: "-1k" was refused for its sign
C4_Witness ==
    /\ cvStr = <<"-", "1", "k">>
    /\ cvRes.op = "bandwidth"
    /\ ~cvRes.rc
    /\ cvRes.err.fmt = "Bytes value may not be negative '%s'"

(***************************************************************************)
(* Properties of the accessors (ConfSpec)                                  *)
(***************************************************************************)
\* lr_yumrepoconf_getinfo was called on the entry for the option
Got(option) ==
    getres.op = "getinfo" /\ ~getres.null /\ getres.option = option

\* lr_yumrepoconf_setopt was called on the entry for the option
DidSet(option) ==
    setres.op = "setopt" /\ ~setres.null /\ setres.option = option

\* the option was set on the entry and then read from it
SetThenGot(option) == DidSet(option) /\ Got(option)

GotValue(val) == getres.rc /\ getres.err = NoError /\ getres.wrote /\ getres.val = val

\* the text stored under the option's key, Null without the key
Stored(option) == g_key_file_get_string(entry.keyfile, KeyOf(option)).str

\* the options with a default, and the default of each
DefaultOf(option) ==
    CASE option \in {"LR_YRC_ENABLED", "LR_YRC_ENABLEGROUPS", "LR_YRC_SSLVERIFY"} -> I(1)
      [] option = "LR_YRC_IP_RESOLVE" -> "LR_IPRESOLVE_WHATEVER"
      [] option = "LR_YRC_METADATA_EXPIRE" -> I(172800)

\* C5: reading an option that has a default and whose key is absent from
\* the section yields the default and succeeds, with no error.
C5_AbsentKeyYieldsDefault ==
    \A option \in {"LR_YRC_ENABLED", "LR_YRC_ENABLEGROUPS", "LR_YRC_SSLVERIFY",
                   "LR_YRC_IP_RESOLVE", "LR_YRC_METADATA_EXPIRE"} :
        (Got(option) /\ entry.keyfile[KeyOf(option)] = Null)
            => GotValue(DefaultOf(option))

\* the stored text is not one the option's kind takes
Unacceptable(option) ==
    CASE option = "LR_YRC_BANDWIDTH" ->
             \A c \in lr_convert_bandwidth_to_bytes(Stored(option)) : ~c.rc
      [] option = "LR_YRC_METADATA_EXPIRE" ->
             \A c \in lr_convert_interval_to_seconds(Stored(option)) : ~c.rc
      [] option = "LR_YRC_IP_RESOLVE" ->
             StrDown(Stored(option)) \notin
                 {<<"i","p","v","4">>, <<"i","p","v","6">>,
                  <<"w","h","a","t","e","v","e","r">>}

\* C6: reading an option whose key is present with a text its kind does not
\* take (a text the unit converter rejects, an unknown ip_resolve name)
\* fails with LRE_VALUE.
C6_InvalidTextIsValueError ==
    \A option \in {"LR_YRC_BANDWIDTH", "LR_YRC_METADATA_EXPIRE", "LR_YRC_IP_RESOLVE"} :
        (Got(option) /\ Stored(option) # Null /\ Unacceptable(option))
            => (~getres.rc /\ getres.err.code = "LRE_VALUE")

\* C7: lr_yumrepoconf_setopt of LR_YRC_ID on an entry fails with
\* LRE_BADOPTARG whatever the value, and changes no key of the key file and
\* not the id; lr_yumrepoconf_getinfo of LR_YRC_ID afterwards still yields
\* the name of the section.
C7_IdIsReadOnly ==
    [][/\ (nsets' = nsets + 1 /\ setres'.option = "LR_YRC_ID" /\ ~setres'.null) =>
              /\ ~setres'.rc
              /\ setres'.err.code = "LRE_BADOPTARG"
              /\ entry' = entry
       /\ (getres'.op = "getinfo" /\ ~getres'.null /\ getres'.option = "LR_YRC_ID"
               /\ setres'.op = "setopt" /\ ~setres'.null /\ setres'.option = "LR_YRC_ID") =>
              /\ getres'.rc
              /\ getres'.err = NoError
              /\ getres'.val = SectionName]_vars

\* C7 happens: the id was read after an attempt to set it in a section
\* with keys
C7_Witness ==
    /\ SetThenGot("LR_YRC_ID")
    /\ setres.arg = <<"z">>
    /\ setres.err.code = "LRE_BADOPTARG"
    /\ getres.val = SectionName
    /\ entry.keyfile = ValidFile

\* C8: a list option that was set to a list of one or more texts, none of
\* them empty, reads back as that list: the same texts in the same order,
\* none added and none split.
C8_ListRoundTrip ==
    \A option \in ListOptions :
        (/\ SetThenGot(option)
         /\ setres.arg # NoList
         /\ Len(setres.arg) > 0
         /\ \A i \in 1..Len(setres.arg) : setres.arg[i] # <<>>)
            => GotValue(setres.arg)

\* C9: metadata_expire set to a signed 64-bit number and bandwidth set to an
\* unsigned 64-bit number read back as that number.
C9_Int64RoundTrip ==
    \A option \in {"LR_YRC_METADATA_EXPIRE", "LR_YRC_BANDWIDTH"} :
        SetThenGot(option) => GotValue(setres.arg)

\* C10: a text option set to a text (not NULL), enabled, gpgcheck,
\* repo_gpgcheck, enablegroups or sslverify set to 0 or 1, and cost or
\* priority set to any 32-bit signed number, negative ones too, reads back
\* as the value it was set to.
C10_ScalarRoundTrip ==
    /\ \A option \in TextOptions :
           (SetThenGot(option) /\ setres.arg # Null) => GotValue(setres.arg)
    /\ \A option \in BoolOptions \ {"LR_YRC_FASTESTMIRROR"} :
           (SetThenGot(option) /\ setres.arg \in {I(0), I(1)}) => GotValue(setres.arg)
    /\ \A option \in IntOptions :
           SetThenGot(option) => GotValue(setres.arg)

\* C10 happens: a negative priority was set and read
C10_Witness ==
    /\ SetThenGot("LR_YRC_PRIORITY")
    /\ setres.arg = I(-5)
    /\ getres.rc
    /\ getres.val = I(-5)

\* the option was set to the value that stands for "nothing": a list option
\* to the NULL or the empty list, a text option to NULL
Unset(option) ==
    /\ DidSet(option)
    /\ \/ option \in ListOptions /\ setres.arg \in {NoList, <<>>}
       \/ option \in TextOptions /\ setres.arg = Null

\* C11: setting a list option to an empty or absent list, or a text option
\* to NULL, succeeds and removes the key from the section, whatever was
\* stored; reading the option afterwards fails with LRE_NOTSET.
C11_UnsetRemovesKey ==
    \A option \in ListOptions \cup TextOptions :
        Unset(option) =>
            /\ setres.rc
            /\ setres.err = NoError
            /\ entry.keyfile[KeyOf(option)] = Null
            /\ Got(option) => (~getres.rc /\ getres.err.code = "LRE_NOTSET")

\* C11 happens: baseurl was set to the empty list in a section that had
\* it, and read afterwards
C11_Witness ==
    /\ Unset("LR_YRC_BASEURL")
    /\ setres.arg = <<>>
    /\ entry.keyfile["name"] = <<"x">>
    /\ Got("LR_YRC_BASEURL")
    /\ getres.err.code = "LRE_NOTSET"

\* the two texts g_key_file_set_boolean writes
BooleanTexts == {<<"t","r","u","e">>, <<"f","a","l","s","e">>}

\* C12: every boolean option, fastestmirror too, is written as a boolean:
\* after it was set, its key holds the text of a boolean, "true" or "false".
C12_BooleanKindKept ==
    \A option \in BoolOptions :
        DidSet(option) => (setres.rc /\ entry.keyfile[KeyOf(option)] \in BooleanTexts)


(***************************************************************************)
(* Properties of the loader (LoadSpec)                                     *)
(***************************************************************************)
\* the lines of the file that was normalized
LinesOf == g_strsplit(data, "\n")

\* the buffer is what the key file was loaded from
Normalized == pc = "done" /\ data # Null

\* the line begins with whitespace
Indented(line) == Len(line) > 0 /\ line[1] \in {" ", "\t"}

\* the line without the whitespace it begins with
Stripped(line) == From(line, RunEnd(line, 1, {" ", "\t"}))

\* the line is 'key = v', for some v
KeyWithValue(line) == Len(line) >= 4 /\ SubSeq(line, 1, 4) = <<"k", " ", "=", " ">>

\* the lines joined with one ';' before each of them
RECURSIVE Continued(_)
Continued(lines) ==
    IF Len(lines) = 0 THEN <<>>
    ELSE <<";">> \o Stripped(lines[1]) \o Continued(Tail(lines))

\* C13: a line 'key = v' followed by one or more lines that begin with
\* whitespace becomes one line: 'key = v', then each following line without
\* its leading whitespace and with exactly one ';' before it, whatever v and
\* the following lines are.
C13_ContinuationsJoined ==
    (/\ Normalized
     /\ Len(LinesOf) >= 2
     /\ KeyWithValue(LinesOf[1])
     /\ \A n \in 2..Len(LinesOf) : Indented(LinesOf[n]))
        => string = LinesOf[1] \o Continued(Tail(LinesOf))

\* C14 as the specification has it: 'key =' followed by the line '  b' becomes
\* 'key = b'.
C14_EmptyValueSpaced ==
    (Normalized /\ data = <<"k", " ", "=", "\n", " ", " ", "b">>)
        => string = <<"k", " ", "=", " ", "b">>

\* C14, amended: 'key =' followed by one line that begins with whitespace
\* becomes 'key =' with the line, without its leading whitespace, right
\* after the '=': no ';' and no other character is put between them
\* ('key =b').
C14_EmptyValueJoined ==
    (/\ Normalized
     /\ Len(LinesOf) = 2
     /\ LinesOf[1] = <<"k", " ", "=">>
     /\ Indented(LinesOf[2]))
        => string = LinesOf[1] \o Stripped(LinesOf[2])

\* C14 happens: 'k =' and '  b' are 'k =b'
C14_Witness ==
    /\ Normalized
    /\ data = <<"k", " ", "=", "\n", " ", " ", "b">>
    /\ string = <<"k", " ", "=", "b">>
    /\ step.cont

\* no line of the file begins with whitespace
NoneIndented == \A n \in 1..Len(LinesOf) : ~Indented(LinesOf[n])

\* C18 as the specification has it: a file with no line that begins with
\* whitespace is normalized to exactly its own text.
C18_VerbatimWithoutIndent ==
    (Normalized /\ NoneIndented) => string = data

\* C18, amended: a file with no line that begins with whitespace is
\* normalized to its own text with every tab replaced by a space, in the
\* first line as in the others.
C18_TabsReplacedWithoutIndent ==
    (Normalized /\ NoneIndented) =>
        string = [n \in 1..Len(data) |-> IF data[n] = "\t" THEN " " ELSE data[n]]

\* C18 happens: the tab of a first line is replaced
C18_Witness ==
    /\ Normalized
    /\ Len(LinesOf) = 2
    /\ LinesOf[1] = <<"x", "\t", "y">>
    /\ NoneIndented
    /\ SubSeq(string, 1, 3) = <<"x", " ", "y">>

\* C19: a line is treated as a continuation only when the buffer still has
\* a character after its trailing newline was removed, so that the
\* character before the end of the buffer is never read from before the
\* buffer; the first line is never treated as a continuation.
C19_NoReadBeforeBuffer ==
    /\ ~step.under
    /\ idx = 1 => ~step.cont


(***************************************************************************)
(* Properties of the store (StoreSpec)                                     *)
(***************************************************************************)
\* the name is one of a repo file
RepoName(name) ==
    Len(name) >= 5 /\ SubSeq(name, Len(name) - 4, Len(name)) = <<".", "r", "e", "p", "o">>

\* the files of the directory that are repo files, in the order the
\* directory gave them
RepoFiles(path, names) ==
    LET matching == SelectSeq(names, RepoName)
    IN  [n \in 1..Len(matching) |-> path \o <<"/">> \o matching[n]]

\* the file cannot be read or is no key file
Unparsable(filename) == \A loaded \in lr_load_multiline_key_file(Contents(filename)) : ~loaded.ok

\* the store has what it had before the last call, and count files more
GrownBy(count) ==
    /\ Len(repos.files) = Len(last.repos.files) + count
    /\ SubSeq(repos.files, 1, Len(last.repos.files)) = last.repos.files
    /\ Len(repos.repos) >= Len(last.repos.repos)
    /\ SubSeq(repos.repos, 1, Len(last.repos.repos)) = last.repos.repos
    /\ \A n \in Len(last.repos.repos) + 1 .. Len(repos.repos) :
           repos.repos[n].file > Len(last.repos.files)

\* C15: lr_yum_repoconfs_load_dir parses the repo files of the directory in
\* the order the directory gives them and stops at the first that fails: it
\* then returns FALSE, the store holds what it held before and the files
\* parsed before the failing one (nothing is rolled back), and no later file
\* is parsed or added; when none fails it returns TRUE and all are added.
C15_DirectoryStopsAtFirstFailure ==
    (last.op = "load_dir" /\ last.path \in Dirs) =>
        LET files  == RepoFiles(last.path, last.names)
            failed == {n \in 1..Len(files) : Unparsable(files[n])}
            k      == IF failed = {} THEN Len(files) + 1
                      ELSE CHOOSE n \in failed : \A m \in failed : n <= m
        IN  /\ last.rc = (failed = {})
            /\ last.parsed = SubSeq(files, 1, IF failed = {} THEN Len(files) ELSE k)
            /\ GrownBy(k - 1)
            /\ \A n \in 1..(k - 1) :
                   repos.files[Len(last.repos.files) + n].path = files[n]

\* C15 happens: a directory whose second repo file fails, given to a store
\* that holds a file
C15_Witness ==
    /\ last.op = "load_dir"
    /\ last.path = <<"q">>
    /\ SubSeq(last.names, 1, 3) = <<CRepo, ERepo, ARepo>>
    /\ ~last.rc
    /\ Len(last.repos.files) = 1
    /\ Len(repos.files) = 2
    /\ Len(last.parsed) = 2

RECURSIVE EntriesOf(_, _)
\* the entries of the first n files: one for each group, by file and, in a
\* file, in the order of the key file's groups
EntriesOf(files, n) ==
    IF n = 0 THEN <<>>
    ELSE EntriesOf(files, n - 1) \o
         [m \in 1..Len(files[n].keyfile.groups) |->
             [file |-> n, id |-> files[n].keyfile.groups[m]]]

\* C16: a lr_yum_repoconfs_parse call that succeeds appends one file, with
\* the path it was given, and appends only: what the store held stays first.
\* The entries of the store are those of its files, file after file, one for
\* each group in the order the key file gives its groups, each with its own
\* file, also when two files have a group of the same name.
C16_FilesAndEntriesInOrder ==
    /\ heap.store => repos.repos = EntriesOf(repos.files, Len(repos.files))
    /\ (last.op = "parse" /\ last.rc) =>
           /\ GrownBy(1)
           /\ repos.files[Len(repos.files)].path = last.path

\* C16 happens: the second of two files has a group the first has
C16_Witness ==
    /\ last.op = "parse"
    /\ last.rc
    /\ Len(repos.files) = 2
    /\ repos.files[1].path # repos.files[2].path
    /\ \E m, n \in 1..Len(repos.repos) :
           /\ repos.repos[m].file = 1
           /\ repos.repos[n].file = 2
           /\ repos.repos[m].id = repos.repos[n].id

\* C17: after lr_yum_repoconfs_free nothing of the store is allocated: not
\* the store, none of its LrYumRepoConf objects, none of its LrYumRepoFile
\* objects and none of their key files.
C17_FreeReleasesAll ==
    last.op = "free" =>
        /\ ~heap.store
        /\ heap.repos = {}
        /\ heap.files = {}
        /\ heap.keyfiles = {}

\* C20: a lr_yum_repoconfs_parse call that fails does so with LRE_FILE or
\* LRE_KEYFILE and leaves the store as it was: the same files and the same
\* entries, no file without entries added, and the key file that was made
\* for the call freed.
C20_FailedParseChangesNothing ==
    (last.op = "parse" /\ ~last.rc) =>
        /\ last.err.code \in {"LRE_FILE", "LRE_KEYFILE"}
        /\ repos = last.repos
        /\ heap.store
        /\ heap.files = last.heap.files
        /\ heap.repos = last.heap.repos
        /\ heap.keyfiles = last.heap.keyfiles

\* C20 happens: a file that is no key file, given to a store that holds a
\* file; a key file was made for it
C20_Witness ==
    /\ last.op = "parse"
    /\ ~last.rc
    /\ last.err.code = "LRE_KEYFILE"
    /\ Len(repos.files) = 1
    /\ heap.made = last.heap.made + 1

=============================================================================
